---------------------------- MODULE Spec2Model ----------------------------
(***************************************************************************)
(* Model of src/app.py (ProposalGenerator): the template-filling engine    *)
(* (find_and_replace_in_text_frame, find_and_replace_in_shape,             *)
(* replace_placeholders_in_ppt, add_hyperlink_to_run) and the request      *)
(* pipeline around it (generate_proposal and the two POST handlers).       *)
(*                                                                         *)
(* A text is a sequence of symbols.  The symbols "{{" and "}}" are the     *)
(* placeholder delimiters, every other symbol is a word of literal text,   *)
(* so a placeholder token {{name}} is the three-symbol text                *)
(* <<"{{", name, "}}">> and substring search / replace work on symbol      *)
(* sequences exactly as str.__contains__ / str.replace work on characters. *)
(***************************************************************************)
EXTENDS Integers, Sequences, FiniteSets, TLC

\* ------------------------------------------------------------------ bounds
\* Largest number of shapes in a generated shape forest.
MaxShapes == 3
\* Largest number of entries of a generated Replacement Mapping.
MaxKeys == 2
\* Rows and columns of every generated table.
TableRows == 2
TableCols == 2

\* ------------------------------------------------------------- Python values
None == "None"

\* Python truthiness of a font attribute value (None, '' and 0 are falsy).
Truthy(v) == v # None /\ v # "" /\ v # "0"

\* ----------------------------------------------------------------- strings
Tok(name) == <<"{{", name, "}}">>

\* placeholder in text  (str.__contains__)
Contains(text, pat) ==
    \E i \in 1..(Len(text) - Len(pat) + 1) : SubSeq(text, i, i + Len(pat) - 1) = pat

RECURSIVE ReplaceFrom(_, _, _, _)
ReplaceFrom(text, pat, val, i) ==
    IF i > Len(text) THEN <<>>
    ELSE IF i + Len(pat) - 1 <= Len(text) /\ SubSeq(text, i, i + Len(pat) - 1) = pat
         THEN val \o ReplaceFrom(text, pat, val, i + Len(pat))
         ELSE <<text[i]>> \o ReplaceFrom(text, pat, val, i + 1)

\* text.replace(pat, val): every non-overlapping occurrence, left to right.
\* Mapping keys are never empty, so the empty-pattern case of str.replace
\* does not arise.
StrReplace(text, pat, val) == ReplaceFrom(text, pat, val, 1)

\* Number of (possibly overlapping) occurrences of pat in text.
Occurrences(text, pat) ==
    Cardinality({i \in 1..(Len(text) - Len(pat) + 1) :
                    SubSeq(text, i, i + Len(pat) - 1) = pat})

RECURSIVE Join(_, _)
\* sep.join(items)
Join(items, sep) ==
    IF items = <<>> THEN <<>>
    ELSE IF Len(items) = 1 THEN items[1]
    ELSE items[1] \o sep \o Join(Tail(items), sep)

RECURSIVE Concat(_)
Concat(seqs) == IF seqs = <<>> THEN <<>> ELSE seqs[1] \o Concat(Tail(seqs))

\* --------------------------------------------------------------------- runs
\* A run: its text, the five formatting attributes of run.font, underline,
\* whether the <a:r> element has an <a:rPr> child, and the targets of the
\* <a:hlinkClick> nodes appended to that rPr.
MkRun(text, name, size, bold, italic, colorType, rgb, rPr) ==
    [text |-> text, name |-> name, size |-> size, bold |-> bold, italic |-> italic,
     colorType |-> colorType, rgb |-> rgb, underline |-> None, rPr |-> rPr,
     hlinks |-> <<>>]

\* The formatting attribute set {font name, size, bold, italic, RGB color}.
Fmt(run) ==
    [name |-> run.name, size |-> run.size, bold |-> run.bold, italic |-> run.italic,
     rgb |-> IF run.colorType = "rgb" THEN run.rgb ELSE None]

LinkBlue == "0000FF"


\* run.font: python-pptx's _Run.font is built on r.get_or_add_rPr(), so reading
\* any font attribute leaves the run with an <a:rPr> child.
TouchFont(run) == [run EXCEPT !.rPr = TRUE]

\* Lines 275-279: the formatting snapshot taken before the text is mutated.
Snapshot(run) ==
    [font_name |-> run.name, font_size |-> run.size, font_bold |-> run.bold,
     font_italic |-> run.italic,
     font_color |-> IF run.colorType = "rgb" THEN run.rgb ELSE None]

\* run.font.color.rgb = value
SetRgb(run, value) == [run EXCEPT !.colorType = "rgb", !.rgb = value, !.rPr = TRUE]

\* Faulty variant: bold and italic are restored from each other's snapshot.
ReapplySwapped(run, snap) ==
    LET r1 == IF Truthy(snap.font_name) THEN [run EXCEPT !.name = snap.font_name] ELSE run
        r2 == IF Truthy(snap.font_size) THEN [r1 EXCEPT !.size = snap.font_size] ELSE r1
        r3 == IF snap.font_bold # None THEN [r2 EXCEPT !.italic = snap.font_bold] ELSE r2
        r4 == IF snap.font_italic # None THEN [r3 EXCEPT !.bold = snap.font_italic] ELSE r3
    IN  IF snap.font_color # None THEN SetRgb(r4, snap.font_color) ELSE r4

\* Lines 285-294: reapply every snapshotted attribute that is truthy / not None.
Reapply(run, snap) ==
    LET r1 == IF Truthy(snap.font_name) THEN [run EXCEPT !.name = snap.font_name] ELSE run
        r2 == IF Truthy(snap.font_size) THEN [r1 EXCEPT !.size = snap.font_size] ELSE r1
        r3 == IF snap.font_bold # None THEN [r2 EXCEPT !.bold = snap.font_bold] ELSE r2
        r4 == IF snap.font_italic # None THEN [r3 EXCEPT !.italic = snap.font_italic] ELSE r3
    IN  IF snap.font_color # None THEN SetRgb(r4, snap.font_color) ELSE r4

\* Faulty variant: the whole run is overwritten with the replacement.
NewRunTextOverwrite(original_text, placeholder, replacement) == replacement

\* Line 282: run.text = original_text.replace(placeholder, replacement).
\* The source string is original_text, read once per run at line 270, not the
\* run's current text.
NewRunText(original_text, placeholder, replacement) ==
    StrReplace(original_text, placeholder, replacement)

\* Lines 274-294: snapshot, replace the text, reapply.
ReplaceInRun(run, original_text, placeholder, replacement) ==
    Reapply([TouchFont(run) EXCEPT !.text = NewRunText(original_text, placeholder, replacement)],
            Snapshot(run))

\* Lines 248-249 and 257-258: blue, underlined.
StyleAsLink(run) == [SetRgb(run, LinkBlue) EXCEPT !.underline = "True"]

\* What can go wrong inside the try block of add_hyperlink_to_run:
\* nothing, part.relate_to raising (line 218), or building / attaching the
\* hlinkClick node raising (lines 228-245).
Faults == {"none", "relate", "markup"}

\* Faulty variant: the except branch does not style the run.
AddHyperlinkNoFallback(run, url, fault) ==
    IF fault = "none"
    THEN [run |-> StyleAsLink([run EXCEPT !.rPr = TRUE, !.hlinks = Append(@, url)]),
          ret |-> TRUE, related |-> TRUE, raised |-> FALSE]
    ELSE [run |-> run, ret |-> FALSE, related |-> (fault = "markup"), raised |-> FALSE]

\* add_hyperlink_to_run (lines 210-261).  Returns the run, the return value and
\* whether the relationship to url was registered on the part.
AddHyperlinkToRun(run, url, fault) ==
    IF fault = "none"
    THEN [run |-> StyleAsLink([run EXCEPT !.rPr = TRUE, !.hlinks = Append(@, url)]),
          ret |-> TRUE, related |-> TRUE, raised |-> FALSE]
    ELSE [run |-> StyleAsLink(run), ret |-> FALSE, related |-> (fault = "markup"),
          raised |-> FALSE]

\* ------------------------------------------------------------- dictionaries
\* A dict is a sequence of [key, val] entries in insertion order, keys distinct.
DictHas(d, k) == \E i \in 1..Len(d) : d[i].key = k
DictGet(d, k) == d[CHOOSE i \in 1..Len(d) : d[i].key = k].val
\* d[k] = v  /  d.update({k: v}): an existing key keeps its position.
DictSet(d, k, v) ==
    IF DictHas(d, k)
    THEN [i \in 1..Len(d) |-> IF d[i].key = k THEN [key |-> k, val |-> v] ELSE d[i]]
    ELSE Append(d, [key |-> k, val |-> v])

\* ---------------------------------------------------------------- documents
Kinds == {"text", "table", "group", "other"}

\* hasattr(shape, "text_frame") / hasattr(shape, "table") / hasattr(shape, "shapes")
HasTextFrame(shape) == shape.kind = "text"
HasTable(shape) == shape.kind = "table"
HasShapes(shape) == shape.kind = "group"

RECURSIVE SortedSeq(_)
SortedSeq(S) ==
    IF S = {} THEN <<>>
    ELSE LET m == CHOOSE x \in S : \A y \in S : x <= y
         IN  <<m>> \o SortedSeq(S \ {m})

\* Shape forests with n shapes, numbered in document order: kind[i] and the
\* nesting depth[i]; only a group has children.
Forests(n) ==
    {f \in [kind : [1..n -> Kinds], depth : [1..n -> 0..(n - 1)]] :
        /\ n > 0 => f.depth[1] = 0
        /\ \A i \in 2..n : /\ f.depth[i] <= f.depth[i - 1] + 1
                           /\ f.depth[i] = f.depth[i - 1] + 1 => f.kind[i - 1] = "group"}

KidsOf(f, n, i) ==
    SortedSeq({j \in (i + 1)..n :
                 /\ f.depth[j] = f.depth[i] + 1
                 /\ \A k \in (i + 1)..(j - 1) : f.depth[k] > f.depth[i]})

TopLevel(f, n) == SortedSeq({j \in 1..n : f.depth[j] = 0})

CellIds(i) == [r \in 1..TableRows |-> [c \in 1..TableCols |-> <<i, r, c>>]]

\* The text containers a forest owns: one per text shape, one per table cell.
FrameIds(f, n) ==
    {<<i, 0, 0>> : i \in {j \in 1..n : f.kind[j] = "text"}}
    \cup {<<i, r, c>> : i \in {j \in 1..n : f.kind[j] = "table"},
                        r \in 1..TableRows, c \in 1..TableCols}

\* A Presentation: slides (each the sequence of its top-level shapes), the
\* shapes, the text containers (paragraphs of runs) and the hyperlink
\* relationships registered so far.  The first top-level shape is alone on
\* slide 1, the others are on slide 2.
MkDoc(f, n, frame) ==
    LET top == TopLevel(f, n)
    IN  [slides |-> IF top = <<>> THEN << <<>> >> ELSE << <<Head(top)>>, Tail(top) >>,
         shapes |-> [i \in 1..n |->
                       [kind  |-> f.kind[i],
                        frame |-> IF f.kind[i] = "text" THEN <<i, 0, 0>> ELSE <<0, 0, 0>>,
                        rows  |-> IF f.kind[i] = "table" THEN CellIds(i) ELSE <<>>,
                        kids  |-> IF f.kind[i] = "group" THEN KidsOf(f, n, i) ELSE <<>>]],
         frames |-> [x \in FrameIds(f, n) |-> frame],
         rels   |-> {}]

NoDoc == [slides |-> <<>>, shapes |-> <<>>, frames |-> <<>>, rels |-> {}]


\* ------------------------------------------------------------ configuration
\* TEMPLATES (lines 48-51).
TEMPLATES == [marketing |-> "input.pptx", software |-> "input_2.pptx"]
TemplateNames == {"marketing", "software"}
Paths == {"input.pptx", "input_2.pptx"}

\* What a path holds on disk: a valid package, nothing, or a file that is not
\* a valid package.
OnDisk(state, doc) == [state |-> state, doc |-> doc]

\* -------------------------------------------------------------------- state
\* rq[r]: everything request (or call) r owns: its inputs, its position pc,
\* its locals and its in-memory Presentation.  disk: the template files.
\* outbox: the e-mails the SMTP server accepted, in order.
VARIABLES rq, disk, outbox

vars == <<rq, disk, outbox>>

Reqs == {1, 2}

NoCur == [f |-> <<0, 0, 0>>, p |-> 0, r |-> 0, k |-> 0]

\* A call that has not started: entry names what is called
\*   "fill"      replace_placeholders_in_ppt(input_file, replacements, clickable_links)
\*   "generate"  generate_proposal(email, user_description, project_type)
\*   "download"  POST /generate-proposal
\*   "info"      POST /generate-proposal-info
NewCall(entry, body, email, desc, ptype, input_file, replacements, clickable) ==
    [entry |-> entry, body |-> body, email |-> email, desc |-> desc, ptype |-> ptype,
     pc |-> IF entry = "fill" THEN "load"
            ELSE IF entry = "generate" THEN "check_type" ELSE "validate",
     project_type |-> IF entry = "generate" /\ ptype = "" THEN "marketing" ELSE ptype,
     input_file |-> input_file, replacements |-> replacements, clickable |-> clickable,
     prs |-> NoDoc, loaded |-> FALSE,
     todo |-> <<>>, frames |-> <<>>, cur |-> NoCur, original_text |-> <<>>,
     visited |-> <<>>, links |-> <<>>,
     name_kind |-> "", list_values |-> FALSE,
     currency_code |-> "", discounted_price_numeric |-> 0, prices |-> <<>>,
     stripe_link |-> <<>>, calendly_link |-> <<>>,
     ext |-> <<>>, email_result |-> "unsent",
     exc |-> "", status |-> 0, reply |-> "", returned |-> FALSE]

Idle == [NewCall("none", "", FALSE, FALSE, "", "", <<>>, <<>>) EXCEPT !.pc = "idle"]

IsApi(s) == s.entry \in {"download", "info"}

\* An exception leaves the function; generate_proposal and
\* replace_placeholders_in_ppt catch nothing, so it reaches the caller.
Raise(s, e) == [s EXCEPT !.pc = "raised", !.exc = e]

\* ------------------------------------------------------------ the filler
\* Faulty variant: a file that cannot be opened gives an empty presentation.
LoadTemplateLenient(s, file) ==
    IF file.state = "ok"
    THEN [s EXCEPT !.prs = file.doc, !.loaded = TRUE, !.todo = Concat(file.doc.slides),
                   !.pc = "shape"]
    ELSE [s EXCEPT !.prs = NoDoc, !.loaded = TRUE, !.pc = "shape"]

\* Presentation(input_file) (line 316): a fresh in-memory copy of the file, or
\* PackageNotFoundError.  todo is the agenda of the loops of lines 318-320:
\* the top-level shapes of every slide, in document order.
LoadTemplate(s, file) ==
    IF file.state = "ok"
    THEN [s EXCEPT !.prs = file.doc, !.loaded = TRUE, !.todo = Concat(file.doc.slides),
                   !.pc = "shape"]
    ELSE Raise(s, "PackageNotFoundError")

\* Faulty variant: a group's children are not walked.
DispatchNoRecursion(s) ==
    LET shape == s.prs.shapes[Head(s.todo)]
        rest  == Tail(s.todo)
    IN  IF HasTextFrame(shape) THEN [s EXCEPT !.todo = rest, !.frames = <<shape.frame>>]
        ELSE IF HasTable(shape) THEN [s EXCEPT !.todo = rest, !.frames = Concat(shape.rows)]
        ELSE [s EXCEPT !.todo = rest]

\* find_and_replace_in_shape (lines 301-311) on the next shape of the agenda:
\* a text shape and a table hand their text containers to the replacer, a
\* group puts its children in front of the agenda, anything else is skipped.
Dispatch(s) ==
    LET shape == s.prs.shapes[Head(s.todo)]
        rest  == Tail(s.todo)
    IN  IF HasTextFrame(shape) THEN [s EXCEPT !.todo = rest, !.frames = <<shape.frame>>]
        ELSE IF HasTable(shape) THEN [s EXCEPT !.todo = rest, !.frames = Concat(shape.rows)]
        ELSE IF HasShapes(shape) THEN [s EXCEPT !.todo = shape.kids \o rest]
        ELSE [s EXCEPT !.todo = rest]

\* find_and_replace_in_text_frame is entered for the next pending container.
EnterFrame(s) ==
    [s EXCEPT !.frames = Tail(@), !.visited = Append(@, Head(s.frames)),
              !.cur = [f |-> Head(s.frames), p |-> 1, r |-> 0, k |-> 0],
              !.pc = "run"]

\* The run positions of a container after position (p, r), in reading order.
LaterRuns(frame, p, r) ==
    {q \in UNION {{<<i, j>> : j \in 1..Len(frame[i])} : i \in 1..Len(frame)} :
        q[1] > p \/ (q[1] = p /\ q[2] > r)}

FirstPos(Q) == CHOOSE q \in Q : \A o \in Q : q[1] < o[1] \/ (q[1] = o[1] /\ q[2] <= o[2])

\* Faulty variant: the formatting is read (run.font) for every run, before the loop
\* over the mapping.
NextRunReadsFont(s) ==
    LET frame == s.prs.frames[s.cur.f]
        Q == LaterRuns(frame, s.cur.p, s.cur.r)
    IN  IF Q = {} THEN [s EXCEPT !.cur = NoCur, !.original_text = <<>>, !.pc = "shape"]
        ELSE LET q == FirstPos(Q)
             IN  [s EXCEPT !.cur = [f |-> s.cur.f, p |-> q[1], r |-> q[2], k |-> 1],
                           !.original_text = frame[q[1]][q[2]].text,
                           !.prs.frames[s.cur.f][q[1]][q[2]] = TouchFont(@),
                           !.pc = IF s.replacements = <<>> THEN "run" ELSE "key"]

\* Lines 268-272: the loops over paragraphs and runs move to the next run and
\* read original_text = run.text; with no run left the replacer returns.
NextRun(s) ==
    LET frame == s.prs.frames[s.cur.f]
        Q == LaterRuns(frame, s.cur.p, s.cur.r)
    IN  IF Q = {} THEN [s EXCEPT !.cur = NoCur, !.original_text = <<>>, !.pc = "shape"]
        ELSE LET q == FirstPos(Q)
             IN  [s EXCEPT !.cur = [f |-> s.cur.f, p |-> q[1], r |-> q[2], k |-> 1],
                           !.original_text = frame[q[1]][q[2]].text,
                           !.pc = IF s.replacements = <<>> THEN "run" ELSE "key"]

CurRun(s) == s.prs.frames[s.cur.f][s.cur.p][s.cur.r]
SetCurRun(s, run) == [s EXCEPT !.prs.frames[s.cur.f][s.cur.p][s.cur.r] = run]
CurKey(s) == s.replacements[s.cur.k]

\* The loop over replacements.items() moves to the next entry.
NextKey(s) ==
    IF s.cur.k < Len(s.replacements)
    THEN [s EXCEPT !.cur.k = @ + 1, !.pc = "key"]
    ELSE [s EXCEPT !.pc = "run"]

\* Faulty variant: the run is rewritten without testing that the placeholder occurs.
ReplaceKeyUnguarded(s) ==
    LET t == SetCurRun(s, ReplaceInRun(CurRun(s), s.original_text,
                                       CurKey(s).key, CurKey(s).val))
    IN  IF DictHas(s.clickable, CurKey(s).key)
        THEN [t EXCEPT !.pc = "inject"]
        ELSE NextKey(t)

\* Lines 272-297 for one (placeholder, replacement): when the placeholder
\* occurs in original_text the run is rewritten; a clickable placeholder then
\* goes on to add_hyperlink_to_run.
ReplaceKey(s) ==
    IF Contains(s.original_text, CurKey(s).key)
    THEN LET t == SetCurRun(s, ReplaceInRun(CurRun(s), s.original_text,
                                            CurKey(s).key, CurKey(s).val))
         IN  IF DictHas(s.clickable, CurKey(s).key)
             THEN [t EXCEPT !.pc = "inject"]
             ELSE NextKey(t)
    ELSE NextKey(s)

\* Faulty variant: every clickable placeholder is linked to the URL of the first
\* entry of clickable_links.
InjectLinkFirstUrl(s, fault) ==
    LET url == s.clickable[1].val
        res == AddHyperlinkToRun(CurRun(s), url, fault)
        t   == SetCurRun(s, res.run)
        u   == [t EXCEPT !.prs.rels = IF res.related THEN @ \cup {url} ELSE @,
                         !.links = Append(@, [at |-> s.cur, key |-> CurKey(s).key,
                                              url |-> url, fault |-> fault,
                                              ret |-> res.ret])]
    IN  NextKey(u)

\* Line 299: add_hyperlink_to_run(run, clickable_links[placeholder]); its
\* return value is dropped.  links records every call and what it returned.
InjectLink(s, fault) ==
    LET url == DictGet(s.clickable, CurKey(s).key)
        res == AddHyperlinkToRun(CurRun(s), url, fault)
        t   == SetCurRun(s, res.run)
        u   == [t EXCEPT !.prs.rels = IF res.related THEN @ \cup {url} ELSE @,
                         !.links = Append(@, [at |-> s.cur, key |-> CurKey(s).key,
                                              url |-> url, fault |-> fault,
                                              ret |-> res.ret])]
    IN  IF res.raised THEN Raise(u, "HyperlinkError") ELSE NextKey(u)

\* Lines 322-323: return prs.  A direct call is over; generate_proposal goes
\* on to send the e-mail.
FinishWalk(s) ==
    IF s.entry = "fill" THEN [s EXCEPT !.pc = "done", !.returned = TRUE]
    ELSE [s EXCEPT !.pc = "email"]


\* ----------------------------------------------------------- the pipeline
Reject(s, msg) == [s EXCEPT !.status = 400, !.reply = msg, !.pc = "done"]

\* data.get('project_type', 'marketing')
GetProjectType(s) == IF s.ptype = "" THEN "marketing" ELSE s.ptype

\* Faulty variant: the handlers do not check project_type.
ApiValidateNoTypeCheck(s) ==
    IF s.body = "empty" THEN Reject(s, "No JSON data provided")
    ELSE IF s.entry = "download" /\ ~s.email THEN Reject(s, "Email is required")
    ELSE IF s.entry = "download" /\ ~s.desc THEN Reject(s, "User description is required")
    ELSE IF s.entry = "info" /\ (~s.email \/ ~s.desc)
         THEN Reject(s, "Email and user_description are required")
    ELSE [s EXCEPT !.project_type = GetProjectType(s), !.pc = "check_type"]

\* Lines 663-678 and 709-722: the handlers' validation.  body is the parsed
\* JSON ("empty": None or {}); email / desc say whether the field is truthy.
ApiValidate(s) ==
    IF s.body = "empty" THEN Reject(s, "No JSON data provided")
    ELSE IF s.entry = "download" /\ ~s.email THEN Reject(s, "Email is required")
    ELSE IF s.entry = "download" /\ ~s.desc THEN Reject(s, "User description is required")
    ELSE IF s.entry = "info" /\ (~s.email \/ ~s.desc)
         THEN Reject(s, "Email and user_description are required")
    ELSE IF GetProjectType(s) \notin {"marketing", "software"}
         THEN Reject(s, "Project type must be 'marketing' or 'software'")
    ELSE [s EXCEPT !.project_type = GetProjectType(s), !.pc = "check_type"]

\* Lines 515-516.
CheckType(s) ==
    IF s.project_type \notin DOMAIN TEMPLATES THEN Raise(s, "ValueError")
    ELSE [s EXCEPT !.pc = "extract"]

Called(s, service) == [s EXCEPT !.ext = Append(@, service)]

\* extract_client_info (lines 329-356): one model call, json.loads of the
\* answer.  out: the call or the parse raises, or the JSON arrives with
\* client_name a string or null.
ExtractClientInfo(s, out) ==
    IF out = "raise" THEN Raise(Called(s, "openai"), "OpenAIError")
    ELSE [Called(s, "openai") EXCEPT !.name_kind = out, !.pc = "content"]

\* generate_marketing_content / generate_software_content (lines 526-529).
\* The JSON values arrive as strings or as lists of strings.
GenerateContent(s, out) ==
    IF out = "raise" THEN Raise(Called(s, "openai"), "OpenAIError")
    ELSE [Called(s, "openai") EXCEPT !.list_values = (out = "lists"), !.pc = "pricing"]

\* What the pricing answer can hold: the currency the model detected and the
\* discounted price in that currency.
Currencies == {"USD", "PKR"}
Amounts == {1000}
PricingAnswers == [currency_code : Currencies, amount : Amounts]
NoPricing == [error |-> "raise"]

\* calculate_pricing (lines 358-403, called at 532-536): the model call or the
\* parse raises (NoPricing), or the answer arrives with currency_code out.currency_code and
\* discounted_price_numeric out.amount.
CalculatePricing(s, out) ==
    IF out = NoPricing THEN Raise(Called(s, "openai"), "OpenAIError")
    ELSE [Called(s, "openai") EXCEPT !.currency_code = out.currency_code,
                                     !.discounted_price_numeric = out.amount,
                                     !.pc = "stripe"]

StripeFallback == <<"https://digitaldreamworksagency.com/payment">>
CalendlyFallback == <<"https://calendly.com/digi-dreamworks/onboarding-call">>

\* Units of each currency per US dollar.
Rates == [USD |-> 1, PKR |-> 250]

\* What the exchange-rate service can answer (lines 147-148): the rates, rates
\* that lack some currency, or a body without "conversion_rates" (NoRates; a
\* request that raises ends in the same except branch).
NoRates == [error |-> "bad response"]
RateAnswers ==
    {[conversion_rates |-> Rates], [conversion_rates |-> [USD |-> 1]], NoRates}

\* convert_to_usd (lines 143-165): amount / rate, or the amount as it is when
\* the answer has no rates or no rate for the currency.  The amounts and rates
\* of the model divide exactly.
ConvertToUsd(amount, currency_code, data) ==
    IF "conversion_rates" \notin DOMAIN data THEN amount
    ELSE IF currency_code \notin DOMAIN data.conversion_rates THEN amount
    ELSE amount \div data.conversion_rates[currency_code]

\* What can go wrong with Stripe: nothing, stripe.Product.create raising (line
\* 177), or stripe.PaymentLink.create raising after the price exists (line 187).
StripeFaults == {"none", "product", "link"}

\* create_stripe_payment_link (lines 167-201): the payment link, or the fixed
\* fallback URL when anything inside raises; it never raises itself.  prices
\* records every stripe.Price.create made (lines 181-185).
CreateStripeLink(s, data, fault) ==
    LET amount_usd    == ConvertToUsd(s.discounted_price_numeric, s.currency_code, data)
        stripe_amount == amount_usd * 100
    IN  [Called(Called(s, "exchangerate"), "stripe") EXCEPT
            !.prices = IF fault = "product" THEN @
                       ELSE Append(@, [unit_amount |-> stripe_amount, currency |-> "usd"]),
            !.stripe_link = IF fault = "none" THEN <<"https://buy.stripe.com/link">>
                            ELSE StripeFallback,
            !.pc = "calendly"]

\* generate_calendly_link (lines 71-103).
GenerateCalendlyLink(s, ok) ==
    [Called(s, "calendly") EXCEPT
        !.calendly_link = IF ok THEN <<"https://calendly.com/d/booking">>
                          ELSE CalendlyFallback,
        !.pc = "build"]

\* A JSON value of the model's answer: a string (one word named after the
\* field), a list of two strings, or null.
JsonStr(name) == [kind |-> "str", text |-> <<name>>, items |-> <<>>]
JsonList(name) == [kind |-> "list", text |-> <<>>, items |-> << <<name, "1">>, <<name, "2">> >>]
JsonNull == [kind |-> "null", text |-> <<>>, items |-> <<>>]
Text(t) == [kind |-> "str", text |-> t, items |-> <<>>]

\* Lines 612-616: "\n".join(val) for a list, str(val) otherwise.
Stringify(v) ==
    IF v.kind = "list" THEN Join(v.items, <<"\n">>)
    ELSE IF v.kind = "null" THEN <<"None">>
    ELSE v.text

RECURSIVE Update(_, _)
\* d.update(entries)
Update(d, entries) ==
    IF entries = <<>> THEN d
    ELSE Update(DictSet(d, entries[1].key, entries[1].val), Tail(entries))

Entry(name, v) == [key |-> Tok(name), val |-> v]

ClientName(s) == IF s.name_kind = "null" THEN JsonNull ELSE JsonStr("client_name")
Content(s, name) == IF s.list_values THEN JsonList(name) ELSE JsonStr(name)

\* Lines 554-563.
BaseReplacements(s) ==
    << Entry("client_name", ClientName(s)),
       Entry("client_company", JsonStr("client_company")),
       Entry("base_price", JsonStr("base_price_display")),
       Entry("discount", JsonStr("discount_value_display")),
       Entry("final_price", JsonStr("discounted_price_display")),
       Entry("stripe_link", Text(s.stripe_link)),
       Entry("calendly_link", Text(s.calendly_link)),
       Entry("today_date", Text(<<"today">>)) >>

\* Lines 573-589.
MarketingReplacements(s) ==
    << Entry("service_selected", JsonStr("service_selected")),
       Entry("client_industry", JsonStr("client_industry")),
       Entry("brand_positioning_summary", Content(s, "brand_positioning")),
       Entry("marketing_systems_summary", Content(s, "marketing_systems")),
       Entry("growth_potential_summary", Content(s, "growth_potential")),
       Entry("phase1_summary", Content(s, "phase1")),
       Entry("phase2_summary", Content(s, "phase2")),
       Entry("phase3_summary", Content(s, "phase3")),
       Entry("growth_rate", Content(s, "growth_rate")),
       Entry("roi_value", Content(s, "roi_value")),
       Entry("efficiency_rate", Content(s, "efficiency_rate")),
       Entry("base_price", JsonStr("base_price_display")),
       Entry("discount_value", JsonStr("discount_value_display")),
       Entry("discounted_price", JsonStr("discounted_price_display")),
       Entry("stripe_payment_link", Text(s.stripe_link)) >>

\* Lines 592-609.
SoftwareReplacements(s) ==
    << Entry("proposal_title", Content(s, "proposal_title")),
       Entry("business_problem", Content(s, "business_problem")),
       Entry("pain_points", Content(s, "pain_points")),
       Entry("solution_overview", Content(s, "solution_overview")),
       Entry("solution_value", Content(s, "solution_value")),
       Entry("architecture_description", Content(s, "architecture_description")),
       Entry("module_list", Content(s, "module_list")),
       Entry("tech_stack", Content(s, "tech_stack")),
       Entry("phase1", Content(s, "phase1")),
       Entry("phase2", Content(s, "phase2")),
       Entry("phase3", Content(s, "phase3")),
       Entry("phase4", Content(s, "phase4")),
       Entry("deliverables", Content(s, "deliverables")),
       Entry("timeline", Content(s, "timeline")),
       Entry("terms", Content(s, "terms")),
       Entry("next_steps", Content(s, "next_steps")) >>

\* Lines 566-569 and 590: clickable_links.
ClickableLinks(s) ==
    LET base == << [key |-> Tok("stripe_link"), val |-> s.stripe_link],
                   [key |-> Tok("calendly_link"), val |-> s.calendly_link] >>
    IN  IF s.project_type = "marketing"
        THEN DictSet(base, Tok("stripe_payment_link"), s.stripe_link)
        ELSE base

\* Lines 553-619: replacements, clickable_links, every value made a string,
\* input_file = TEMPLATES[project_type].
BuildReplacements(s) ==
    LET raw == Update(BaseReplacements(s),
                      IF s.project_type = "marketing" THEN MarketingReplacements(s)
                      ELSE SoftwareReplacements(s))
    IN  [s EXCEPT !.replacements = [i \in 1..Len(raw) |->
                                       [key |-> raw[i].key, val |-> Stringify(raw[i].val)]],
                  !.clickable = ClickableLinks(s),
                  !.input_file = TEMPLATES[s.project_type],
                  !.pc = "load"]

\* send_email_inmemory (lines 109-137): saving the presentation or the SMTP
\* session may raise; every exception is caught and turned into False.
EmailResult(fault) == IF fault = "none" THEN "sent" ELSE "failed"

\* Faulty variant: send_email_inmemory lets the exception out.
SendEmailUncaught(s, fault) ==
    IF fault = "none"
    THEN [Called(s, "smtp") EXCEPT !.email_result = "sent", !.pc = "return"]
    ELSE Raise(s, "EmailError")

SendEmail(s, fault) ==
    [(IF fault = "save" THEN s ELSE Called(s, "smtp")) EXCEPT
        !.email_result = EmailResult(fault), !.pc = "return"]

\* Lines 629-638: return prs, metadata.
ReturnProposal(s) ==
    IF IsApi(s) THEN [s EXCEPT !.pc = "respond"]
    ELSE [s EXCEPT !.pc = "done", !.returned = TRUE]

\* Lines 684-696 (download: prs.save, the file name from
\* metadata['client_name'].replace, send_file) and 727-731 (info: jsonify).
ApiRespond(s, fault) ==
    IF s.entry = "download" /\ fault = "save" THEN Raise(s, "SaveError")
    ELSE IF s.entry = "download" /\ s.name_kind = "null" THEN Raise(s, "AttributeError")
    ELSE [s EXCEPT !.status = 200,
                   !.reply = IF s.entry = "download" THEN "file"
                             ELSE "Proposal generated and sent via email",
                   !.returned = (s.entry = "download"),
                   !.pc = "done"]

\* Lines 698-700 and 733-735: except Exception -> 500.
ApiExcept(s) == [s EXCEPT !.status = 500, !.reply = s.exc, !.pc = "done"]


\* ------------------------------------------------------------------ inputs
Plain(text) == MkRun(text, None, None, None, None, None, None, FALSE)
Rich(text) == MkRun(text, "Arial", "18", "True", "False", "rgb", "FF0000", TRUE)
Theme(text) == MkRun(text, "", "0", "False", None, "scheme", None, TRUE)

RunTexts ==
    { <<"Price:">> \o Tok("a") \o <<"due">>,
      Tok("a") \o <<"and">> \o Tok("b"),
      Tok("c") \o <<"or">> \o Tok("a"),
      Tok("a") \o Tok("a"),
      <<"{{", "{{", "b", "}}", "}}">>,
      <<"{{", "a">>,
      <<"hello">> }

Runs == {Plain(t) : t \in RunTexts} \cup {Rich(t) : t \in RunTexts}
        \cup {Theme(t) : t \in RunTexts}

KeyNames == <<"a", "b", "c">>
ValueOf == <<"X", "Y", "Z">>
KeyIdx == 1..Len(KeyNames)

\* Replacement Mappings: every ordered choice of at most MaxKeys distinct keys.
Mappings ==
    {[i \in 1..Len(o) |-> [key |-> Tok(KeyNames[o[i]]), val |-> <<ValueOf[o[i]]>>]] :
        o \in {q \in UNION {[1..n -> KeyIdx] : n \in 0..MaxKeys} :
                  \A i, j \in 1..Len(q) : i # j => q[i] # q[j]}}

\* Clickable Sets: every subset of the keys, each with its URL.
ClickableSets ==
    {LET o == SortedSeq(S)
     IN  [i \in 1..Len(o) |-> [key |-> Tok(KeyNames[o[i]]), val |-> <<"url", KeyNames[o[i]]>>]] :
        S \in SUBSET KeyIdx}

SameOnAllPaths(file) == [p \in Paths |-> file]

\* The document at input.pptx, nothing at the other path.
FillDisk(doc) ==
    [p \in Paths |-> IF p = "input.pptx" THEN OnDisk("ok", doc) ELSE OnDisk("missing", NoDoc)]

OneTextShape == [kind |-> <<"text">>, depth |-> <<0>>]

FillCall(replacements, clickable) ==
    NewCall("fill", "", FALSE, FALSE, "", "input.pptx", replacements, clickable)

\* Direct fills of a one-shape template whose container holds one run, for
\* every run, mapping and clickable set.
RunInputs ==
    {[disk |-> FillDisk(MkDoc(OneTextShape, 1, << <<run>> >>)),
      call |-> FillCall(m, c)] :
        run \in Runs, m \in Mappings, c \in ClickableSets}

TreeFrame == << <<>>, <<Rich(<<"Dear">> \o Tok("a"))>> >>

\* Direct fills of every shape forest of at most MaxShapes shapes.
TreeInputs ==
    {[disk |-> FillDisk(MkDoc(x.f, x.n, TreeFrame)),
      call |-> FillCall(<<[key |-> Tok("a"), val |-> <<"X">>]>>, <<>>)] :
        x \in UNION {{[n |-> n, f |-> f] : f \in Forests(n)} : n \in 0..MaxShapes}}

ApiFrame ==
    << <<Rich(<<"Dear">> \o Tok("client_name")), Plain(<<"plain">>)>>,
       <<Theme(Tok("calendly_link") \o <<"or">> \o Tok("stripe_payment_link"))>> >>

ApiDoc == MkDoc([kind |-> <<"group", "text">>, depth |-> <<0, 1>>], 2, ApiFrame)

DiskStates ==
    {SameOnAllPaths(OnDisk("ok", ApiDoc)), SameOnAllPaths(OnDisk("missing", NoDoc)),
     SameOnAllPaths(OnDisk("corrupt", NoDoc))}

ProjectTypes == {"", "marketing", "software", "podcast"}

\* Requests to the two endpoints and direct calls of generate_proposal.
ApiInputs ==
    {[disk |-> d, call |-> NewCall(e, "empty", FALSE, FALSE, "", "", <<>>, <<>>)] :
        d \in DiskStates, e \in {"download", "info"}}
    \cup {[disk |-> d, call |-> NewCall(e, "json", em, de, pt, "", <<>>, <<>>)] :
        d \in DiskStates, e \in {"download", "info"}, em \in BOOLEAN, de \in BOOLEAN,
        pt \in ProjectTypes}
    \cup {[disk |-> d, call |-> NewCall("generate", "", TRUE, TRUE, pt, "", <<>>, <<>>)] :
        d \in DiskStates, pt \in ProjectTypes}

\* Direct fills of a path that holds no valid package.
BadFileInputs ==
    {[disk |-> d, call |-> FillCall(<<[key |-> Tok("a"), val |-> <<"X">>]>>, <<>>)] :
        d \in {SameOnAllPaths(OnDisk("missing", NoDoc)), SameOnAllPaths(OnDisk("corrupt", NoDoc))}}

Inputs == RunInputs \cup TreeInputs \cup BadFileInputs \cup ApiInputs

Init ==
    /\ outbox = <<>>
    /\ \E inp \in Inputs :
          /\ disk = inp.disk
          /\ rq = [r \in Reqs |-> IF r = 1 THEN inp.call ELSE Idle]

\* ----------------------------------------------------------------- actions
\* Faulty variant: the calls hold one Presentation object between them, so what
\* one writes the others see.
DoSharedDocument(r, t) ==
    /\ rq' = [o \in Reqs |->
                IF o = r THEN t
                ELSE IF rq[o].loaded /\ t.loaded THEN [rq[o] EXCEPT !.prs = t.prs]
                ELSE rq[o]]
    /\ UNCHANGED <<disk, outbox>>

\* A step of call r: it changes what r owns and nothing else.
Do(r, t) == rq' = [rq EXCEPT ![r] = t] /\ UNCHANGED <<disk, outbox>>

Validate(r) == rq[r].pc = "validate" /\ Do(r, ApiValidate(rq[r]))

TypeCheck(r) == rq[r].pc = "check_type" /\ Do(r, CheckType(rq[r]))

Extract(r) ==
    /\ rq[r].pc = "extract"
    /\ \E out \in {"str", "null", "raise"} : Do(r, ExtractClientInfo(rq[r], out))

Generate(r) ==
    /\ rq[r].pc = "content"
    /\ \E out \in {"strings", "lists", "raise"} : Do(r, GenerateContent(rq[r], out))

Price(r) ==
    /\ rq[r].pc = "pricing"
    /\ \E out \in {NoPricing} \cup PricingAnswers :
          Do(r, CalculatePricing(rq[r], out))

Stripe(r) ==
    /\ rq[r].pc = "stripe"
    /\ \E data \in RateAnswers, fault \in StripeFaults :
          Do(r, CreateStripeLink(rq[r], data, fault))

Calendly(r) ==
    /\ rq[r].pc = "calendly"
    /\ \E ok \in BOOLEAN : Do(r, GenerateCalendlyLink(rq[r], ok))

Build(r) == rq[r].pc = "build" /\ Do(r, BuildReplacements(rq[r]))

Load(r) == rq[r].pc = "load" /\ Do(r, LoadTemplate(rq[r], disk[rq[r].input_file]))

VisitShape(r) ==
    /\ rq[r].pc = "shape" /\ rq[r].frames = <<>> /\ rq[r].todo # <<>>
    /\ Do(r, Dispatch(rq[r]))

BeginFrame(r) ==
    /\ rq[r].pc = "shape" /\ rq[r].frames # <<>>
    /\ Do(r, EnterFrame(rq[r]))

StepRun(r) == rq[r].pc = "run" /\ Do(r, NextRun(rq[r]))

StepKey(r) == rq[r].pc = "key" /\ Do(r, ReplaceKey(rq[r]))

Inject(r) ==
    /\ rq[r].pc = "inject"
    /\ \E fault \in Faults : Do(r, InjectLink(rq[r], fault))

EndWalk(r) ==
    /\ rq[r].pc = "shape" /\ rq[r].frames = <<>> /\ rq[r].todo = <<>>
    /\ Do(r, FinishWalk(rq[r]))

Email(r) ==
    /\ rq[r].pc = "email"
    /\ \E fault \in {"none", "save", "smtp"} :
          /\ rq' = [rq EXCEPT ![r] = SendEmail(rq[r], fault)]
          /\ outbox' = IF EmailResult(fault) = "sent"
                       THEN Append(outbox, [from |-> r, doc |-> rq[r].prs])
                       ELSE outbox
          /\ UNCHANGED disk

Return(r) == rq[r].pc = "return" /\ Do(r, ReturnProposal(rq[r]))

Respond(r) ==
    /\ rq[r].pc = "respond"
    /\ \E fault \in {"none", "save"} : Do(r, ApiRespond(rq[r], fault))

Except(r) == rq[r].pc = "raised" /\ IsApi(rq[r]) /\ Do(r, ApiExcept(rq[r]))

Next ==
    \E r \in Reqs :
        \/ Validate(r)
        \/ TypeCheck(r)
        \/ Extract(r)
        \/ Generate(r)
        \/ Price(r)
        \/ Stripe(r)
        \/ Calendly(r)
        \/ Build(r)
        \/ Load(r)
        \/ VisitShape(r)
        \/ BeginFrame(r)
        \/ StepRun(r)
        \/ StepKey(r)
        \/ Inject(r)
        \/ EndWalk(r)
        \/ Email(r)
        \/ Return(r)
        \/ Respond(r)
        \/ Except(r)

Spec == Init /\ [][Next]_vars

\* Two calls in flight at once on the same template files: a request to an
\* endpoint next to a direct fill, or two direct fills, each with its own
\* mapping.
OtherMapping ==
    << [key |-> Tok("client_name"), val |-> <<"Other">>],
       [key |-> Tok("calendly_link"), val |-> <<"elsewhere">>] >>
OtherClickable == << [key |-> Tok("calendly_link"), val |-> <<"url", "other">>] >>
ThirdMapping == << [key |-> Tok("client_name"), val |-> <<"Third">>] >>

ConcurrentCalls ==
    {<<NewCall("download", "json", TRUE, TRUE, "marketing", "", <<>>, <<>>),
       FillCall(ThirdMapping, <<>>)>>}
    \cup {<<FillCall(ThirdMapping, <<>>), FillCall(OtherMapping, OtherClickable)>>,
          <<FillCall(OtherMapping, OtherClickable), FillCall(<<>>, <<>>)>>}

ConcInit ==
    /\ outbox = <<>>
    /\ disk = SameOnAllPaths(OnDisk("ok", ApiDoc))
    /\ \E c \in ConcurrentCalls : rq = [r \in Reqs |-> c[r]]

ConcSpec == ConcInit /\ [][Next]_vars


\* ------------------------------------------------------------------ helpers
WalkPcs == {"shape", "run", "key", "inject"}

\* replace_placeholders_in_ppt has returned the presentation.
FillReturned(s) == s.loaded /\ s.pc \notin WalkPcs

\* The template the call loaded, as it is on disk.
Template(s) == disk[s.input_file].doc

\* The positions <<container, paragraph, run>> of a document's runs.
RunPositions(doc) ==
    UNION {UNION {{<<f, p, r>> : r \in 1..Len(doc.frames[f][p])} :
                     p \in 1..Len(doc.frames[f])} : f \in DOMAIN doc.frames}

RunAt(doc, pos) == doc.frames[pos[1]][pos[2]][pos[3]]

\* The entries of a mapping whose key occurs in text, in mapping order.
Matching(text, m) == SelectSeq(m, LAMBDA e : Contains(text, e.key))

Perms(m) ==
    {[i \in 1..Len(m) |-> m[o[i]]] :
        o \in {q \in [1..Len(m) -> 1..Len(m)] : \A i, j \in 1..Len(m) : i # j => q[i] # q[j]}}

RECURSIVE SubstAll(_, _)
\* Every entry of m substituted into text, one after the other.
SubstAll(text, m) ==
    IF m = <<>> THEN text
    ELSE SubstAll(StrReplace(text, m[1].key, m[1].val), Tail(m))

\* ------------------------------------------------------------------- claims

\* C1: a run whose text contains two (or more) distinct placeholders that are
\* keys of the mapping ends with all of them substituted, and the final text
\* is the one every processing order of the mapping gives.
C1_AllPlaceholdersSubstituted ==
    \A r \in Reqs :
        FillReturned(rq[r]) =>
            \A pos \in RunPositions(Template(rq[r])) :
                LET orig == RunAt(Template(rq[r]), pos).text
                    mm   == Matching(orig, rq[r].replacements)
                IN  Len(mm) >= 2 =>
                        \A m \in Perms(mm) : RunAt(rq[r].prs, pos).text = SubstAll(orig, m)


RECURSIVE SumSeq(_)
SumSeq(ns) == IF ns = <<>> THEN 0 ELSE ns[1] + SumSeq(Tail(ns))

Count(x, seq) == Cardinality({i \in 1..Len(seq) : seq[i] = x})

IsPrefix(a, b) == Len(a) <= Len(b) /\ SubSeq(b, 1, Len(a)) = a

RECURSIVE FramesUnder(_, _)
\* The text containers find_and_replace_in_shape reaches from shape i, by the
\* recursion of lines 301-311: depth first, a table row by row.
FramesUnder(doc, i) ==
    LET shape == doc.shapes[i]
    IN  IF HasTextFrame(shape) THEN <<shape.frame>>
        ELSE IF HasTable(shape) THEN Concat(shape.rows)
        ELSE IF HasShapes(shape)
             THEN Concat([j \in 1..Len(shape.kids) |-> FramesUnder(doc, shape.kids[j])])
        ELSE <<>>

\* Every text container of the document, in document order.
DocumentOrder(doc) ==
    LET top == Concat(doc.slides)
    IN  Concat([j \in 1..Len(top) |-> FramesUnder(doc, top[j])])

\* Steps the replacer still takes for one run, one container, one shape.
RunCost(s) == 1 + 2 * Len(s.replacements)

FrameCost(s, f) ==
    2 + RunCost(s) * SumSeq([p \in 1..Len(s.prs.frames[f]) |-> Len(s.prs.frames[f][p])])

RECURSIVE ShapesUnder(_, _)
\* The number of shapes the walker dispatches on from shape i.
ShapesUnder(doc, i) ==
    LET shape == doc.shapes[i]
    IN  IF HasShapes(shape) /\ ~HasTextFrame(shape) /\ ~HasTable(shape)
        THEN 1 + SumSeq([j \in 1..Len(shape.kids) |-> ShapesUnder(doc, shape.kids[j])])
        ELSE 1

ShapeCost(s, i) ==
    ShapesUnder(s.prs, i)
    + SumSeq([j \in 1..Len(FramesUnder(s.prs, i)) |-> FrameCost(s, FramesUnder(s.prs, i)[j])])

\* Steps left in the container the replacer is in.
CurCost(s) ==
    LET later == Cardinality(LaterRuns(s.prs.frames[s.cur.f], s.cur.p, s.cur.r))
        keys  == Len(s.replacements) - s.cur.k
    IN  IF s.pc = "shape" THEN 0
        ELSE IF s.pc = "run" THEN later * RunCost(s) + 1
        ELSE IF s.pc = "key" THEN 2 * (keys + 1) + later * RunCost(s) + 1
        ELSE 1 + 2 * keys + later * RunCost(s) + 1

\* An upper bound on the steps the walk still takes.
Work(s) ==
    SumSeq([j \in 1..Len(s.todo) |-> ShapeCost(s, s.todo[j])])
    + SumSeq([j \in 1..Len(s.frames) |-> FrameCost(s, s.frames[j])])
    + CurCost(s) + 1

C2_State(s) ==
    s.loaded =>
        /\ IsPrefix(s.visited, DocumentOrder(Template(s)))
        /\ s.pc \in WalkPcs => s.exc = ""
        /\ s.entry = "fill" => s.pc # "raised"
        /\ FillReturned(s) =>
              /\ s.visited = DocumentOrder(Template(s))
              /\ \A f \in DOMAIN Template(s).frames : Count(f, s.visited) = 1
              /\ Len(s.visited) = Cardinality(DOMAIN Template(s).frames)

C2_Step(r) ==
    (rq[r].pc \in WalkPcs /\ rq'[r] # rq[r]) =>
        \/ rq'[r].pc \in WalkPcs /\ Work(rq'[r]) < Work(rq[r])
        \/ rq'[r].pc \in {"done", "email"} /\ Work(rq[r]) = 1

\* C2: on every finite shape forest the walk terminates (every step of it
\* lowers the bound Work on the steps left, and a step is always enabled until
\* it returns), it raises nothing, whatever the shapes are, and when it returns
\* the replacer has been applied exactly once to every text container of a
\* text shape or table cell, nested or not, in document order.
C2_EveryContainerOnce ==
    /\ [](\A r \in Reqs : C2_State(rq[r]) /\ (rq[r].pc \in WalkPcs => ENABLED Next))
    /\ [][\A r \in Reqs : C2_Step(r)]_vars

\* A group holding a group holding a table has been walked: every cell visited
\* once and the placeholder of a cell replaced.
C2_Witness ==
    /\ rq[1].pc = "done" /\ rq[1].entry = "fill" /\ Len(rq[1].prs.shapes) = 3
    /\ rq[1].prs.shapes[1].kids = <<2>> /\ rq[1].prs.shapes[2].kids = <<3>>
    /\ rq[1].prs.shapes[3].kind = "table"
    /\ Len(rq[1].visited) = TableRows * TableCols
    /\ RunAt(rq[1].prs, << <<3, 1, 1>>, 2, 1 >>).text = <<"Dear", "X">>


\* A direct fill of a one-container template has returned; First is the
\* position of the container's first run.
First == << <<1, 0, 0>>, 1, 1 >>

OneRunFillDone(s) ==
    /\ s.entry = "fill" /\ s.pc = "done"
    /\ DOMAIN s.prs.frames = {<<1, 0, 0>>}
    /\ Len(s.prs.frames[<<1, 0, 0>>]) = 1 /\ Len(s.prs.frames[<<1, 0, 0>>][1]) >= 1

\* The position of the run the replacer is at.
CurPos(s) == <<s.cur.f, s.cur.p, s.cur.r>>

\* Request r takes the step of lines 272-297 for a key that occurs / does not
\* occur in the run's text.
KeyStep(r) == rq[r].pc = "key" /\ rq'[r] # rq[r]
KeyMatches(s) == Contains(s.original_text, CurKey(s).key)

\* No clickable entry of the mapping occurs in text.
NoClickableMatch(s, text) ==
    \A i \in 1..Len(s.replacements) :
        Contains(text, s.replacements[i].key) => ~DictHas(s.clickable, s.replacements[i].key)

C3_Step(r) ==
    (KeyStep(r) /\ KeyMatches(rq[r]) /\ ~DictHas(rq[r].clickable, CurKey(rq[r]).key)) =>
        Fmt(RunAt(rq'[r].prs, CurPos(rq[r]))) = Fmt(CurRun(rq[r]))

C3_State(s) ==
    FillReturned(s) =>
        \A pos \in RunPositions(Template(s)) :
            NoClickableMatch(s, RunAt(Template(s), pos).text) =>
                Fmt(RunAt(s.prs, pos)) = Fmt(RunAt(Template(s), pos))

\* C3: replacing a mapped placeholder that is not clickable leaves the run's
\* font name, size, bold, italic and explicit RGB color as they were before
\* the replacement, an unset attribute (None) staying unset; a run in which no
\* clickable placeholder was replaced ends with the formatting of the template.
C3_FormattingPreserved ==
    /\ [](\A r \in Reqs : C3_State(rq[r]))
    /\ [][\A r \in Reqs : C3_Step(r)]_vars

\* A bold, sized, coloured run had its placeholder replaced and kept its
\* formatting.
C3_Witness ==
    /\ OneRunFillDone(rq[1]) /\ rq[1].clickable = <<>>
    /\ RunAt(Template(rq[1]), First) = Rich(<<"Price:">> \o Tok("a") \o <<"due">>)
    /\ RunAt(rq[1].prs, First).text = <<"Price:", "X", "due">>
    /\ Fmt(RunAt(rq[1].prs, First))
         = [name |-> "Arial", size |-> "18", bold |-> "True", italic |-> "False", rgb |-> "FF0000"]

C4_State(s) ==
    FillReturned(s) =>
        \A pos \in RunPositions(Template(s)) : \A i \in 1..Len(s.replacements) :
            LET orig == RunAt(Template(s), pos).text
                key  == s.replacements[i].key
                val  == s.replacements[i].val
            IN  \A j \in 1..(Len(orig) - Len(key) + 1) :
                    ( /\ SubSeq(orig, j, j + Len(key) - 1) = key
                      /\ Occurrences(orig, key) = 1
                      /\ Len(Matching(orig, s.replacements)) = 1 ) =>
                        RunAt(s.prs, pos).text
                          = SubSeq(orig, 1, j - 1) \o val \o SubSeq(orig, j + Len(key), Len(orig))

\* C4: a run whose text is prefix + placeholder + suffix, the placeholder a key
\* of the mapping and prefix and suffix text in which no key of the mapping
\* occurs, ends as exactly prefix + value + suffix.
C4_OnlyPlaceholderReplaced == \A r \in Reqs : C4_State(rq[r])

\* "Price: {{a}} due" has become "Price: X due".
C4_Witness ==
    /\ OneRunFillDone(rq[1])
    /\ RunAt(Template(rq[1]), First).text = <<"Price:">> \o Tok("a") \o <<"due">>
    /\ DictHas(rq[1].replacements, Tok("a"))
    /\ RunAt(rq[1].prs, First).text = <<"Price:", "X", "due">>

\* The placeholder tokens {{name}} of a text.
TokensIn(text) ==
    {SubSeq(text, j, j + 2) :
        j \in {i \in 1..(Len(text) - 2) :
                  text[i] = "{{" /\ text[i + 2] = "}}" /\ text[i + 1] \notin {"{{", "}}"}}}

C5_State(s) ==
    FillReturned(s) =>
        \A pos \in RunPositions(Template(s)) :
            \A t \in TokensIn(RunAt(Template(s), pos).text) :
                ~DictHas(s.replacements, t) =>
                    Occurrences(RunAt(s.prs, pos).text, t)
                      >= Occurrences(RunAt(Template(s), pos).text, t)

C5_Step(r) ==
    (KeyStep(r) /\ ~KeyMatches(rq[r])) =>
        rq'[r].prs = rq[r].prs /\ rq'[r].pc # "raised" /\ rq'[r].links = rq[r].links

\* C5: processing a mapping key that does not occur in a run raises nothing and
\* changes no run; a token {{name}} of a run that is no key of the mapping is
\* still in that run, as often as before, when the fill has returned, whatever
\* else was replaced in the run.
C5_UnmatchedIgnored ==
    /\ [](\A r \in Reqs : C5_State(rq[r]))
    /\ [][\A r \in Reqs : C5_Step(r)]_vars

\* "{{c}} or {{a}}" filled with a mapping of {{a}} and the unused {{b}}:
\* {{c}} is still there.
C5_Witness ==
    /\ OneRunFillDone(rq[1])
    /\ RunAt(Template(rq[1]), First).text = Tok("c") \o <<"or">> \o Tok("a")
    /\ DictHas(rq[1].replacements, Tok("a")) /\ DictHas(rq[1].replacements, Tok("b"))
    /\ RunAt(rq[1].prs, First).text = Tok("c") \o <<"or", "X">>

\* C6: with an empty Replacement Mapping the presentation equals the loaded
\* template at every moment of the fill and after it (text, formatting,
\* rPr, hyperlink nodes, relationships), whatever the Clickable Set is, and
\* add_hyperlink_to_run is never called.
C6_EmptyMappingNoOp ==
    \A r \in Reqs :
        (rq[r].loaded /\ rq[r].replacements = <<>>) =>
            rq[r].prs = Template(rq[r]) /\ rq[r].links = <<>>

\* A fill with an empty mapping and a non-empty Clickable Set, one of whose
\* keys is in the template's run, has returned.
C6_Witness ==
    /\ OneRunFillDone(rq[1]) /\ rq[1].replacements = <<>> /\ Len(rq[1].visited) = 1
    /\ \E i \in 1..Len(rq[1].clickable) :
          Contains(RunAt(Template(rq[1]), First).text, rq[1].clickable[i].key)


IsLinkStyled(run) == run.colorType = "rgb" /\ run.rgb = LinkBlue /\ run.underline = "True"

\* Some call of add_hyperlink_to_run failed.
Degraded(s) == \E i \in 1..Len(s.links) : ~s.links[i].ret

C7_State(s) ==
    /\ \A i \in 1..Len(s.links) :
          /\ s.links[i].fault # "none" => ~s.links[i].ret
          /\ ~s.links[i].ret =>
                IsLinkStyled(RunAt(s.prs, <<s.links[i].at.f, s.links[i].at.p, s.links[i].at.r>>))
    /\ Degraded(s) =>
          /\ s.exc # "HyperlinkError"
          /\ s.pc \in WalkPcs => s.exc = ""
          /\ FillReturned(s) => s.visited = DocumentOrder(Template(s))
          /\ (s.entry = "fill" /\ s.pc \notin WalkPcs) => (s.pc = "done" /\ s.returned)

C7_Step(r) ==
    (rq[r].pc = "inject" /\ rq'[r] # rq[r]) =>
        /\ rq'[r].pc \in {"key", "run"}
        /\ Len(rq'[r].links) = Len(rq[r].links) + 1
        /\ LET l == rq'[r].links[Len(rq'[r].links)]
           IN  /\ l.at = rq[r].cur
               /\ l.fault # "none" =>
                     ~l.ret /\ IsLinkStyled(RunAt(rq'[r].prs, CurPos(rq[r])))

\* C7: when relationship registration or markup construction fails inside
\* add_hyperlink_to_run, the call raises nothing and returns False, the run is
\* blue (0000FF) and underlined from then on, the replacer goes on with the
\* next key or run, and the fill visits every container and returns the
\* document.
C7_ClickableFallback ==
    /\ [](\A r \in Reqs : C7_State(rq[r]))
    /\ [][\A r \in Reqs : C7_Step(r)]_vars

\* A download whose hyperlink could not be registered answered 200 with the
\* file; the run is blue and underlined and carries no hlinkClick node.
C7_Witness ==
    /\ rq[1].entry = "download" /\ rq[1].status = 200 /\ rq[1].returned
    /\ \E i \in 1..Len(rq[1].links) :
          /\ rq[1].links[i].fault = "relate" /\ ~rq[1].links[i].ret
          /\ IsLinkStyled(RunAt(rq[1].prs, <<rq[1].links[i].at.f, rq[1].links[i].at.p,
                                             rq[1].links[i].at.r>>))
    /\ \A i \in 1..Len(rq[1].links) : rq[1].links[i].fault = "relate"
    /\ rq[1].prs.rels = {}

\* Call r has tried to open a path that holds no valid package.
LoadFailed(s) == s.input_file # "" /\ disk[s.input_file].state # "ok" /\ s.pc # "load"

C8_State(r) ==
    LoadFailed(rq[r]) =>
        /\ rq[r].exc = "PackageNotFoundError" /\ rq[r].pc \in {"raised", "done"}
        /\ ~rq[r].loaded /\ rq[r].prs = NoDoc
        /\ rq[r].visited = <<>> /\ rq[r].links = <<>>
        /\ ~rq[r].returned /\ rq[r].email_result = "unsent"
        /\ \A i \in 1..Len(outbox) : outbox[i].from # r
        /\ rq[r].pc = "done" => (IsApi(rq[r]) /\ rq[r].status = 500)
        /\ rq[r].pc = "raised" => rq[r].status = 0
        /\ (IsApi(rq[r]) /\ rq[r].pc = "raised") => ENABLED Next

C8_Step(r) ==
    (LoadFailed(rq[r]) /\ rq'[r] # rq[r]) => (rq'[r].pc = "done" /\ rq'[r].status = 500)

\* C8: when the template path holds no valid package, the load raises before
\* any shape is processed, the exception leaves replace_placeholders_in_ppt
\* and generate_proposal, no document is returned or e-mailed, and the only
\* step an endpoint then takes is its answer with status 500.
C8_LoadErrorPropagates ==
    /\ [](\A r \in Reqs : C8_State(r))
    /\ [][\A r \in Reqs : C8_Step(r)]_vars

\* A request for a missing template was answered with status 500.
C8_Witness ==
    /\ rq[1].entry = "download" /\ rq[1].pc = "done" /\ rq[1].status = 500
    /\ rq[1].exc = "PackageNotFoundError" /\ rq[1].ext # <<>>
    /\ disk[rq[1].input_file].state = "missing"

\* C9 as stated: once the template has loaded, nothing fails the request: no
\* exception, an endpoint answers 200, and the download returns the document.
C9_AlwaysSucceedsOnceLoaded ==
    \A r \in Reqs :
        rq[r].loaded =>
            /\ rq[r].exc = ""
            /\ (IsApi(rq[r]) /\ rq[r].pc = "done") => rq[r].status = 200

C9_State(s) ==
    s.loaded =>
        /\ s.exc \in {"", "SaveError", "AttributeError"}
        /\ s.exc # "" =>
              /\ s.entry = "download" /\ s.pc \in {"raised", "done"}
              /\ s.email_result # "unsent" /\ ~s.returned
              /\ s.exc = "AttributeError" => s.name_kind = "null"
        /\ s.pc = "done" =>
              /\ s.entry \in {"fill", "generate"} => s.returned
              /\ s.entry = "info" => s.status = 200
              /\ s.entry = "download" =>
                    /\ s.status \in {200, 500}
                    /\ s.status = 200 <=> (s.exc = "" /\ s.returned)
        /\ s.pc # "done" => s.status = 0
        /\ (s.pc \notin {"done", "raised"} \/ (s.pc = "raised" /\ IsApi(s))) => ENABLED Next

\* C9 (amended): once the template has loaded, the shape walk, hyperlink
\* injection (failed or not) and the e-mail (sent or not) never fail the call:
\* generate_proposal returns the document and POST /generate-proposal-info
\* answers 200.  POST /generate-proposal answers 200 with the file unless
\* saving the document to the response buffer raises or the file name cannot be
\* built (client_name is not a string); it then answers 500.
C9_SucceedsUnlessSerializationFails == \A r \in Reqs : C9_State(rq[r])

\* A download succeeded although a hyperlink degraded and the e-mail failed.
C9_Witness ==
    /\ rq[1].entry = "download" /\ rq[1].pc = "done" /\ rq[1].status = 200
    /\ Degraded(rq[1]) /\ rq[1].email_result = "failed"

\* The request names a project_type that is no template variant.
BadType(s) ==
    s.entry \in {"download", "info", "generate"} /\ s.ptype \notin {"", "marketing", "software"}

C10_State(s) ==
    BadType(s) =>
        /\ s.ext = <<>> /\ s.email_result = "unsent"
        /\ ~s.loaded /\ s.input_file = "" /\ s.prs = NoDoc /\ s.visited = <<>>
        /\ s.replacements = <<>> /\ ~s.returned
        /\ IsApi(s) => /\ s.pc \in {"validate", "done"}
                       /\ s.pc = "done" => s.status = 400
        /\ s.entry = "generate" => /\ s.pc \in {"check_type", "raised"}
                                   /\ s.pc = "raised" => s.exc = "ValueError"

\* C10: a request (to either endpoint) or a call of generate_proposal whose
\* project_type is given and is neither "marketing" nor "software" is answered
\* 400 (raises ValueError) without any external call, template load, fill or
\* e-mail.
C10_UnknownVariantRejected ==
    \A r \in Reqs :
        /\ C10_State(rq[r])
        /\ BadType(rq[r]) => \A i \in 1..Len(outbox) : outbox[i].from # r

\* A complete request for project_type "podcast" was answered 400 for its type.
C10_Witness ==
    /\ rq[1].entry = "info" /\ rq[1].email /\ rq[1].desc /\ rq[1].ptype = "podcast"
    /\ rq[1].status = 400 /\ rq[1].reply = "Project type must be 'marketing' or 'software'"

\* Font name, size, bold and italic: the formatting a link leaves alone.
Face(run) == [name |-> run.name, size |-> run.size, bold |-> run.bold, italic |-> run.italic]

\* The step of lines 272-297 for a clickable key that occurs in the run: the
\* text is substituted and the formatting reapplied, and the injector has not
\* been called yet.
C12_KeyStep(r) ==
    (KeyStep(r) /\ KeyMatches(rq[r]) /\ DictHas(rq[r].clickable, CurKey(rq[r]).key)) =>
        /\ rq'[r].pc = "inject" /\ rq'[r].cur = rq[r].cur
        /\ rq'[r].links = rq[r].links /\ rq'[r].prs.rels = rq[r].prs.rels
        /\ CurRun(rq'[r]).text
             = StrReplace(rq[r].original_text, CurKey(rq[r]).key, CurKey(rq[r]).val)
        /\ Fmt(CurRun(rq'[r])) = Fmt(CurRun(rq[r]))
        /\ CurRun(rq'[r]).hlinks = CurRun(rq[r]).hlinks

\* The step of line 299: the injector works on the substituted run, with the
\* URL clickable_links pairs to the key.
C12_InjectStep(r) ==
    (rq[r].pc = "inject" /\ rq'[r] # rq[r]) =>
        LET key  == CurKey(rq[r]).key
            old  == CurRun(rq[r])
            new  == RunAt(rq'[r].prs, CurPos(rq[r]))
            link == rq'[r].links[Len(rq'[r].links)]
        IN  /\ old.text = StrReplace(rq[r].original_text, key, CurKey(rq[r]).val)
            /\ link.key = key /\ link.url = DictGet(rq[r].clickable, key)
            /\ link.ret => (new.hlinks = Append(old.hlinks, link.url)
                            /\ link.url \in rq'[r].prs.rels)
            /\ ~link.ret => new.hlinks = old.hlinks
            /\ new.text = old.text /\ Face(new) = Face(old)
            /\ IsLinkStyled(new)

\* A run the injector was called on ends blue and underlined, whatever its
\* color was, and every run ends with the font name, size, bold and italic of
\* the template.
C12_State(s) ==
    FillReturned(s) =>
        /\ \A i \in 1..Len(s.links) :
              IsLinkStyled(RunAt(s.prs, <<s.links[i].at.f, s.links[i].at.p, s.links[i].at.r>>))
        /\ \A pos \in RunPositions(Template(s)) :
              Face(RunAt(s.prs, pos)) = Face(RunAt(Template(s), pos))

\* C12: for a matched clickable placeholder the injector is called on the run
\* only after its text was substituted and its formatting reapplied, with the
\* URL paired to that key; the run then is, and stays to the end of the fill,
\* blue (0000FF) and underlined instead of its snapshotted color, while font
\* name, size, bold and italic keep their values.
C12_LinkAfterReplace ==
    /\ [](\A r \in Reqs : C12_State(rq[r]))
    /\ [][\A r \in Reqs : C12_KeyStep(r) /\ C12_InjectStep(r)]_vars

\* A red, bold run "Price: {{a}} due" with {{a}} clickable ended as
\* "Price: X due", linked to the URL of {{a}}, blue and underlined, still
\* Arial 18 bold.
C12_Witness ==
    /\ OneRunFillDone(rq[1])
    /\ RunAt(Template(rq[1]), First) = Rich(<<"Price:">> \o Tok("a") \o <<"due">>)
    /\ RunAt(rq[1].prs, First).text = <<"Price:", "X", "due">>
    /\ RunAt(rq[1].prs, First).hlinks = << <<"url", "a">> >>
    /\ IsLinkStyled(RunAt(rq[1].prs, First))
    /\ Face(RunAt(rq[1].prs, First))
         = [name |-> "Arial", size |-> "18", bold |-> "True", italic |-> "False"]
    /\ Len(rq[1].clickable) = 2

\* The calls of add_hyperlink_to_run made on the run at pos.
LinksAt(s, pos) ==
    {i \in 1..Len(s.links) : <<s.links[i].at.f, s.links[i].at.p, s.links[i].at.r>> = pos}

\* C13: after a fill every run carries at most one hlinkClick node in its rPr
\* and at most one link target was registered for it, also when its text holds
\* more than one clickable placeholder.
C13_AtMostOneHyperlink ==
    \A r \in Reqs :
        FillReturned(rq[r]) =>
            \A pos \in RunPositions(rq[r].prs) :
                /\ Len(RunAt(rq[r].prs, pos).hlinks) <= 1
                /\ Cardinality({rq[r].links[i].url :
                                  i \in {j \in LinksAt(rq[r], pos) :
                                            rq[r].links[j].fault # "relate"}}) <= 1

\* POST /generate-proposal-info has answered 200 with its success message.
InfoSucceeded(s) ==
    /\ s.entry = "info" /\ s.pc = "done" /\ s.status = 200
    /\ s.reply = "Proposal generated and sent via email"

\* C14: whenever POST /generate-proposal-info answers 200 "Proposal generated
\* and sent via email", send_email_inmemory returned True for that request and
\* the SMTP server accepted a mail carrying the request's filled document.
C14_SuccessMeansDelivered ==
    \A r \in Reqs :
        InfoSucceeded(rq[r]) =>
            /\ rq[r].email_result = "sent"
            /\ \E i \in 1..Len(outbox) : outbox[i].from = r /\ outbox[i].doc = rq[r].prs

\* C15: whenever a Stripe price is created for an amount in a currency other
\* than USD, its unit_amount is the cents of the amount converted at the
\* exchange rate, never the cents of the local-currency number itself, also
\* when the rate lookup fails or the currency is not supported.
C15_PriceFromConvertedAmount ==
    \A r \in Reqs :
        rq[r].currency_code \in Currencies \ {"USD"} =>
            \A i \in 1..Len(rq[r].prices) :
                /\ rq[r].prices[i].unit_amount
                     = (rq[r].discounted_price_numeric \div Rates[rq[r].currency_code]) * 100
                /\ rq[r].prices[i].unit_amount # rq[r].discounted_price_numeric * 100

\* What the replacer leaves of a run's text when it works on it alone with
\* mapping m: the last entry of m that occurs in the text is substituted
\* (lines 270-282), or nothing is.
OwnText(orig, m) ==
    LET mm == Matching(orig, m)
    IN  IF mm = <<>> THEN orig
        ELSE StrReplace(orig, mm[Len(mm)].key, mm[Len(mm)].val)

\* The URLs of call s's own Clickable Set.
OwnUrls(s) == {s.clickable[i].val : i \in 1..Len(s.clickable)}

\* The document of a call is made of the template and of the call's own
\* inputs only.
C11_State(r) ==
    LET s == rq[r]
    IN  s.loaded =>
          /\ s.prs.slides = Template(s).slides /\ s.prs.shapes = Template(s).shapes
          /\ s.prs.rels \subseteq OwnUrls(s)
          /\ \A pos \in RunPositions(Template(s)) :
                LET orig == RunAt(Template(s), pos)
                    run  == RunAt(s.prs, pos)
                IN  /\ run.text # orig.text => Matching(orig.text, s.replacements) # <<>>
                    /\ \A i \in 1..Len(run.hlinks) : run.hlinks[i] \in OwnUrls(s)
                    /\ FillReturned(s) => run.text = OwnText(orig.text, s.replacements)
          /\ \A i \in 1..Len(outbox) : outbox[i].from = r => outbox[i].doc = s.prs

\* A step changes what one call owns, nothing of another call, and never the
\* template files.
C11_Step ==
    /\ disk' = disk
    /\ \A r \in Reqs : rq'[r] # rq[r] => \A o \in Reqs \ {r} : rq'[o] = rq[o]

\* C11: under every interleaving of two calls on the same template files, each
\* call fills its own freshly loaded document: a step of one call changes
\* nothing another call owns, every document (and the mail and response made
\* of it) holds the template with that call's own mapping and links only, and
\* the template on disk is never written.
C11_RequestsIsolated ==
    /\ [](\A r \in Reqs : C11_State(r))
    /\ [](disk = SameOnAllPaths(OnDisk("ok", ApiDoc)))
    /\ [][C11_Step]_vars

\* Both calls are in the middle of their walk over the same template and each
\* has written its own client name into its own copy of the same run.
C11_Witness ==
    /\ rq[1].entry = "download" /\ rq[1].pc \in WalkPcs
    /\ rq[2].entry = "fill" /\ rq[2].pc \in WalkPcs
    /\ rq[1].input_file = rq[2].input_file
    /\ RunAt(rq[1].prs, << <<2, 0, 0>>, 1, 1 >>).text = <<"Dear", "client_name">>
    /\ RunAt(rq[2].prs, << <<2, 0, 0>>, 1, 1 >>).text = <<"Dear", "Third">>
    /\ RunAt(disk["input.pptx"].doc, << <<2, 0, 0>>, 1, 1 >>).text = <<"Dear">> \o Tok("client_name")

==========================================================================
